---- MODULE Spec2Model ----
(***************************************************************************)
(* State-machine model of src/server.js: the transaction store, the POST   *)
(* /api/transactions handler with its deferred resolution timer, and the   *)
(* read handlers (GET by id, listing, statistics).                         *)
(*                                                                         *)
(* Every `await` of a handler is an interleaving point: a handler is one   *)
(* action per database round trip, each action being the database          *)
(* operation together with the synchronous code that runs when it returns. *)
(* Time is counted in seconds.                                             *)
(***************************************************************************)
EXTENDS Integers, Sequences, FiniteSets, TLC

VARIABLES
  store,      \* the Transaction collection: a set of documents
  saving,     \* documents whose newTransaction.save() is in flight
  timers,     \* the setTimeout list of the event loop, in scheduling order
  resolving,  \* findOneAndUpdate calls of timer callbacks that are in flight (a set)
  errlog,     \* transactionIds whose resolve update was caught at line 126
  nextOid,    \* number of documents constructed so far (source of _id)
  now,        \* the wall clock, in seconds
  stats,      \* the GET /api/stats call in flight (pc = 0: none)
  listing,    \* the GET /api/transactions call in flight (pc = 0: none)
  resp        \* the HTTP response sent by the latest step (NoResp: none)

vars == <<store, saving, timers, resolving, errlog, nextOid, now, stats, listing, resp>>

-----------------------------------------------------------------------------
(* Bounds of the model *)

\* number of Transaction documents the handlers construct in one behaviour
MaxTxn == 2
\* last second of the clock
MaxTime == 3

-----------------------------------------------------------------------------
(* Program constants *)

\* setTimeout delay, 3000 ms
DELAY == 3
\* limit = 10 when the query gives none
DEFAULT_LIMIT == 10
\* page = 1 when the query gives none
DEFAULT_PAGE == 1
\* seconds in a calendar day (the %Y-%m-%d key of a Date)
DAY == 86400
\* lastWeek.getDate() - 7
WEEK_DAYS == 7

\* JavaScript null in a String path (utrId)
Null == "null"
\* JavaScript null in a Date path (paymentDate)
NullDate == -1
\* an absent or empty string parameter (both are falsy)
NoParam == ""

-----------------------------------------------------------------------------
(* JSON / query values: undefined, a number, a non-numeric string, a date   *)
(* string                                                                  *)

Undef == [k |-> "undef"]
Num(n) == [k |-> "num", v |-> n]
Str == [k |-> "str"]
DateStr(t) == [k |-> "date", v |-> t]

\* !x for the values above: undefined and 0 are falsy, a non-empty string is not
Falsy(x) == x.k = "undef" \/ (x.k = "num" /\ x.v = 0)

\* x <= 0: undefined and a non-numeric string convert to NaN, which compares false
LeqZero(x) == x.k = "num" /\ x.v <= 0

\* Mongoose casts the value of a Number path; a non-numeric string is a CastError
CastsToNumber(x) == x.k = "num"

-----------------------------------------------------------------------------
(* Inputs *)

\* request bodies of POST /api/transactions
Bodies ==
  { [amount |-> Num(100), description |-> "Rent", upiId |-> NoParam],
    [amount |-> Undef,    description |-> NoParam, upiId |-> "shop@upi"],
    [amount |-> Num(0),   description |-> "Rent", upiId |-> NoParam],
    [amount |-> Num(-5),  description |-> NoParam, upiId |-> NoParam],
    [amount |-> Str,      description |-> NoParam, upiId |-> NoParam] }

\* values of crypto.randomBytes(2)
RandBytes == {0, 1}

\* values of Math.random(), in tenths, for the success draw
RandomTenths == {0, 1, 2, 9}

\* values of Math.random(), in tenths, for the UTR draw
UtrTenths == {0}

-----------------------------------------------------------------------------
(* Identifier generation *)

\* 'TXN' + Date.now() in base 36 + two random bytes in hex: the id is
\* determined by the instant and the random bytes
generateTransactionId(t, rnd) == <<"TXN", t, rnd>>

\* Math.floor(100000000000 + Math.random() * 900000000000).toString(), with
\* the nine low digits dropped: 100 + tenths * 90 are the three leading digits
generateUTRId(tenths) == ToString(100 + tenths * 90)

-----------------------------------------------------------------------------
(* The Transaction schema *)

\* mutant: paymentDate declared with default Date.now, as date is
NewTransactionPaymentDated(oid, id, body, t) ==
  [ _id           |-> oid,
    transactionId |-> id,
    utrId         |-> Null,
    amount        |-> body.amount,
    description   |-> IF body.description = NoParam THEN "Payment" ELSE body.description,
    status        |-> "pending",
    upiId         |-> IF body.upiId = NoParam THEN "8618505915@fam" ELSE body.upiId,
    date          |-> t,
    paymentDate   |-> t ]

\* new Transaction({transactionId, amount, description, upiId}): the schema
\* defaults fill utrId, status, date and paymentDate
NewTransaction(oid, id, body, t) ==
  [ _id           |-> oid,
    transactionId |-> id,
    utrId         |-> Null,
    amount        |-> body.amount,
    description   |-> IF body.description = NoParam THEN "Payment" ELSE body.description,
    status        |-> "pending",
    upiId         |-> IF body.upiId = NoParam THEN "8618505915@fam" ELSE body.upiId,
    date          |-> t,
    paymentDate   |-> NullDate ]

\* mutant: the schema path declared without unique: true
UniqueIndexMissing(coll, doc) == TRUE

\* the unique index on transactionId
UniqueIndexAllows(coll, doc) ==
  \A d \in coll : d.transactionId # doc.transactionId

\* schema validation at save(): amount is a required Number
ValidatesOnSave(doc) == CastsToNumber(doc.amount)

\* the stored form of a validated document: amount cast to its number
Stored(doc) == [doc EXCEPT !.amount = doc.amount.v]

-----------------------------------------------------------------------------
(* Responses *)

NoResp == [op |-> "none", code |-> 0]
Reply(op, code, body) == [op |-> op, code |-> code, body |-> body]

\* a response of POST /api/transactions; the ghost field req records the
\* amount of the request it answers
CreateReply(code, body, amount) ==
  [op |-> "create", code |-> code, body |-> body, req |-> amount]

\* the 500 of the create handler's catch block; the ghost field minted
\* records the transactionId the request had minted
CatchReply(doc) ==
  [op |-> "create", code |-> 500, body |-> [message |-> "Server error"],
   req |-> doc.amount, minted |-> doc.transactionId]

-----------------------------------------------------------------------------
(* Initial state: an empty collection, no request and no timer in flight *)

Init ==
  /\ store = {}
  /\ saving = {}
  /\ timers = <<>>
  /\ resolving = {}
  /\ errlog = {}
  /\ nextOid = 0
  /\ now = 0
  /\ stats = [pc |-> 0]
  /\ listing = [pc |-> 0]
  /\ resp = NoResp

\* the latest response has left the process
Sent ==
  /\ resp # NoResp
  /\ resp' = NoResp
  /\ UNCHANGED <<store, saving, timers, resolving, errlog, nextOid, now, stats, listing>>

-----------------------------------------------------------------------------
(* POST /api/transactions *)

\* mutant: the test written amount < 0, which lets a zero amount through
InvalidAmountZeroPasses(amount) == amount.k = "undef" \/ (amount.k = "num" /\ amount.v < 0)

\* if (!amount || amount <= 0)
InvalidAmount(amount) == Falsy(amount) \/ LeqZero(amount)

\* the validation branch: 400, nothing else happens
CreateReject(body) ==
  /\ resp = NoResp
  /\ InvalidAmount(body.amount)
  /\ resp' = CreateReply(400, [message |-> "Invalid amount"], body.amount)
  /\ UNCHANGED <<store, saving, timers, resolving, errlog, nextOid, now, stats, listing>>

\* validation passed: mint the id, construct the document, start save()
CreateBegin(body, rnd) ==
  /\ resp = NoResp
  /\ ~InvalidAmount(body.amount)
  /\ nextOid < MaxTxn
  /\ now + DELAY <= MaxTime
  /\ saving' = saving \cup
       {NewTransaction(nextOid + 1, generateTransactionId(now, rnd), body, now)}
  /\ nextOid' = nextOid + 1
  /\ resp' = NoResp
  /\ UNCHANGED <<store, timers, resolving, errlog, now, stats, listing>>

\* mutant: the setTimeout call left out
ScheduleResolveForgotten(tm, id, t) == tm

\* mutant: the setTimeout call made twice
ScheduleResolveTwice(tm, id, t) ==
  tm \o << [transactionId |-> id, fireAt |-> t + DELAY],
           [transactionId |-> id, fireAt |-> t + DELAY] >>

\* setTimeout(callback, 3000) for the saved transactionId
ScheduleResolve(tm, id, t) ==
  Append(tm, [transactionId |-> id, fireAt |-> t + DELAY])

\* save() resolved: the document is inserted, the timer is set, 201 is sent
SaveOk(doc) ==
  /\ resp = NoResp
  /\ doc \in saving
  /\ ValidatesOnSave(doc)
  /\ UniqueIndexAllows(store, doc)
  /\ now + DELAY <= MaxTime
  /\ store' = store \cup {Stored(doc)}
  /\ saving' = saving \ {doc}
  /\ timers' = ScheduleResolve(timers, doc.transactionId, now)
  /\ resp' = CreateReply(201,
                         [message |-> "Transaction initiated",
                          transactionId |-> doc.transactionId, status |-> "pending"],
                         doc.amount)
  /\ UNCHANGED <<resolving, errlog, nextOid, now, stats, listing>>

\* mutant: the timer set before save() is awaited, so a failed save leaves it
CreateCatchTimerSet(doc) ==
  /\ saving' = saving \ {doc}
  /\ timers' = ScheduleResolve(timers, doc.transactionId, now)
  /\ resp' = CatchReply(doc)
  /\ UNCHANGED <<store, resolving, errlog, nextOid, now, stats, listing>>

\* the catch block of the handler: 500, no insert, no timer
CreateCatch(doc) ==
  /\ saving' = saving \ {doc}
  /\ resp' = CatchReply(doc)
  /\ UNCHANGED <<store, timers, resolving, errlog, nextOid, now, stats, listing>>

\* save() rejected by validation (CastError) or by the unique index (E11000)
SaveRejected(doc) ==
  /\ resp = NoResp
  /\ doc \in saving
  /\ ~ValidatesOnSave(doc) \/ ~UniqueIndexAllows(store, doc)
  /\ CreateCatch(doc)

\* save() rejected because the database failed
SaveError(doc) ==
  /\ resp = NoResp
  /\ doc \in saving
  /\ CreateCatch(doc)

-----------------------------------------------------------------------------
(* The timer callback *)

\* const success = Math.random() > 0.1
Success(tenths) == tenths > 1

\* mutant: the success update without its utrId
SuccessUpdateNoUtr(utrId, t) == [status |-> "success", paymentDate |-> t]

\* { status: 'success', utrId, paymentDate: new Date() }
SuccessUpdate(utrId, t) ==
  [status |-> "success", utrId |-> utrId, paymentDate |-> t]

\* mutant: the failed update stamped with a paymentDate
FailedUpdateDated(t) == [status |-> "failed", paymentDate |-> t]

\* { status: 'failed' }
FailedUpdate(t) == [status |-> "failed"]

\* $set of the update's paths on one document
ApplyUpdate(doc, upd) ==
  [f \in DOMAIN doc |-> IF f \in DOMAIN upd THEN upd[f] ELSE doc[f]]

\* mutant: the update applied without its filter, to every document
UpdateUnfiltered(coll, id, upd) == {ApplyUpdate(d, upd) : d \in coll}

\* Transaction.findOneAndUpdate({transactionId}, update): the first matching
\* document is updated; no match is not an error
FindOneAndUpdate(coll, id, upd) ==
  LET hits == {d \in coll : d.transactionId = id} IN
  IF hits = {} THEN coll
  ELSE LET d == CHOOSE x \in hits : \A y \in hits : x._id <= y._id
       IN (coll \ {d}) \cup {ApplyUpdate(d, upd)}

\* mutant: a repeating timer (setInterval), which stays armed
AfterFireRepeating(tm) == tm

\* mutant: one timer handle shared by all requests, so a fire clears them all
AfterFireClearsAll(tm) == <<>>

\* the timers left once the head timer has fired (setTimeout fires once)
AfterFire(tm) == Tail(tm)

\* the timer at the head of the list is due: the callback draws the outcome
\* and starts findOneAndUpdate
TimerFire(tenths, utrTenths) ==
  /\ resp = NoResp
  /\ timers # <<>>
  /\ now >= Head(timers).fireAt
  /\ Success(tenths) \/ utrTenths = CHOOSE x \in UtrTenths : TRUE
  /\ resolving' = resolving \cup
       {[transactionId |-> Head(timers).transactionId,
         update |-> IF Success(tenths)
                    THEN SuccessUpdate(generateUTRId(utrTenths), now)
                    ELSE FailedUpdate(now)]}
  /\ timers' = AfterFire(timers)
  /\ resp' = NoResp
  /\ UNCHANGED <<store, saving, errlog, nextOid, now, stats, listing>>

\* findOneAndUpdate resolved
ResolveOk(u) ==
  /\ resp = NoResp
  /\ u \in resolving
  /\ store' = FindOneAndUpdate(store, u.transactionId, u.update)
  /\ resolving' = resolving \ {u}
  /\ resp' = NoResp
  /\ UNCHANGED <<saving, timers, errlog, nextOid, now, stats, listing>>

\* mutant: no try/catch, the unhandled rejection ends the process and its timers
TimersAfterCrash(tm) == <<>>

\* the timers that survive a rejected update: the catch block swallows it
TimersAfterCatch(tm) == tm

\* mutant: the catch block schedules the callback again
ResolveErrorRetried(u) ==
  /\ resp = NoResp
  /\ u \in resolving
  /\ errlog' = errlog \cup {u.transactionId}
  /\ resolving' = resolving \ {u}
  /\ timers' = Append(timers, [transactionId |-> u.transactionId, fireAt |-> now + DELAY])
  /\ resp' = NoResp
  /\ UNCHANGED <<store, saving, nextOid, now, stats, listing>>

\* findOneAndUpdate rejected: console.error, nothing else
ResolveError(u) ==
  /\ resp = NoResp
  /\ u \in resolving
  /\ errlog' = errlog \cup {u.transactionId}
  /\ resolving' = resolving \ {u}
  /\ timers' = TimersAfterCatch(timers)
  /\ resp' = NoResp
  /\ UNCHANGED <<store, saving, nextOid, now, stats, listing>>

-----------------------------------------------------------------------------
(* A server that has been running for some days *)

\* the request body of the transactions of earlier days
SeedBody == [amount |-> Num(40), description |-> NoParam, upiId |-> NoParam]

\* instants of earlier days at which transactions were created: nine days,
\* two days and one day before the clock's origin
SeedDates == {-9 * DAY, -2 * DAY, -DAY}

\* a transaction created at instant t and resolved DELAY later, as the create
\* handler and its timer callback leave it
SeedDoc(oid, t, rnd, ok) ==
  LET d == Stored(NewTransaction(oid, generateTransactionId(t, rnd), SeedBody, t))
  IN ApplyUpdate(d, IF ok THEN SuccessUpdate(generateUTRId(0), t + DELAY)
                          ELSE FailedUpdate(t + DELAY))

\* the collections that n transactions of earlier days leave: _id follows the
\* order of creation and transactionIds are unique
SeedStores(n) ==
  { {SeedDoc(k, f[k][1], (k - 1) % Cardinality(RandBytes), f[k][2]) : k \in 1..n} :
      f \in { g \in [1..n -> SeedDates \X BOOLEAN] :
                /\ \A i, j \in 1..n : i < j => g[i][1] <= g[j][1]
                /\ \A i, j \in 1..n :
                     (i < j /\ g[i][1] = g[j][1]) =>
                       (i - 1) % Cardinality(RandBytes) # (j - 1) % Cardinality(RandBytes) } }

\* the server some days into its life: the transactions of earlier days are
\* stored and resolved, no request and no timer is in flight.  The earlier
\* days count against the documents of the behaviour; one collection more
\* than that is taken, which no Create then adds to.
InitSeeded ==
  /\ \E n \in 0..(MaxTxn + 1) : /\ store \in SeedStores(n)
                                 /\ nextOid = n
  /\ saving = {}
  /\ timers = <<>>
  /\ resolving = {}
  /\ errlog = {}
  /\ now = 0
  /\ stats = [pc |-> 0]
  /\ listing = [pc |-> 0]
  /\ resp = NoResp

-----------------------------------------------------------------------------
(* The clock *)

Tick ==
  /\ resp = NoResp
  /\ now < MaxTime
  /\ now' = now + 1
  /\ resp' = NoResp
  /\ UNCHANGED <<store, saving, timers, resolving, errlog, nextOid, stats, listing>>

-----------------------------------------------------------------------------
(* GET /api/transactions/:id *)

\* the ids a client asks for: those it was given or is waiting for, and one
\* that no Create minted
UnknownId == <<"TXN", -1, 0>>
KnownIds ==
  {d.transactionId : d \in store} \cup {d.transactionId : d \in saving} \cup {UnknownId}

\* Transaction.findOne({ transactionId })
FindOne(coll, id) == {d \in coll : d.transactionId = id}

Get(id) ==
  /\ resp = NoResp
  /\ resp' = IF FindOne(store, id) = {}
             THEN Reply("get", 404, [message |-> "Transaction not found"])
             ELSE Reply("get", 200, CHOOSE d \in FindOne(store, id) : TRUE)
  /\ UNCHANGED <<store, saving, timers, resolving, errlog, nextOid, now, stats, listing>>

GetError(id) ==
  /\ resp = NoResp
  /\ resp' = Reply("get", 500, [message |-> "Server error"])
  /\ UNCHANGED <<store, saving, timers, resolving, errlog, nextOid, now, stats, listing>>

-----------------------------------------------------------------------------
(* GET /api/transactions *)

\* query strings of the listing
Queries ==
  { [status |-> NoParam,   startDate |-> Undef,      endDate |-> Undef,       page |-> Undef,  limit |-> Undef],
    [status |-> "all",     startDate |-> Undef,      endDate |-> Undef,       page |-> Num(2), limit |-> Num(1)],
    [status |-> "pending", startDate |-> Undef,      endDate |-> Undef,       page |-> Num(2), limit |-> Num(1)],
    [status |-> "success", startDate |-> DateStr(0), endDate |-> DateStr(1),  page |-> Num(1), limit |-> Num(2)],
    [status |-> "failed",  startDate |-> DateStr(0), endDate |-> Undef,       page |-> Num(3), limit |-> Num(1)],
    [status |-> NoParam,   startDate |-> DateStr(1), endDate |-> DateStr(2),  page |-> Num(1), limit |-> Num(2)],
    [status |-> "all",     startDate |-> Undef,      endDate |-> DateStr(-1), page |-> Undef,  limit |-> Num(3)],
    [status |-> NoParam,   startDate |-> Str,        endDate |-> Undef,       page |-> Undef,  limit |-> Undef] }

\* query strings with a page or a limit that is not positive
DegenerateQueries ==
  { [status |-> NoParam, startDate |-> Undef, endDate |-> Undef, page |-> Num(-1), limit |-> Undef],
    [status |-> NoParam, startDate |-> Undef, endDate |-> Undef, page |-> Num(0),  limit |-> Num(1)],
    [status |-> NoParam, startDate |-> Undef, endDate |-> Undef, page |-> Undef,   limit |-> Num(0)],
    [status |-> "all",   startDate |-> Undef, endDate |-> Undef, page |-> Num(2),  limit |-> Num(0)],
    [status |-> NoParam, startDate |-> Undef, endDate |-> Undef, page |-> Num(1),  limit |-> Num(-1)] }

\* const { page = 1, limit = 10 } = req.query
PageOf(q) == IF q.page = Undef THEN DEFAULT_PAGE ELSE q.page.v
LimitOf(q) == IF q.limit = Undef THEN DEFAULT_LIMIT ELSE q.limit.v

\* new Date(string) is a valid Date for a date string and Invalid Date
\* otherwise; an Invalid Date in the filter is a CastError of the query
FilterCasts(q) ==
  /\ q.startDate.k \in {"undef", "date"}
  /\ q.endDate.k \in {"undef", "date"}

\* mutant: the 'all' sentinel not tested, so it is matched as a status
StatusMatchesNoSentinel(q, d) == q.status # NoParam => d.status = q.status

\* filter.status, set only when status is given and is not 'all'
StatusMatches(q, d) ==
  (q.status # NoParam /\ q.status # "all") => d.status = q.status

\* filter.date: $gte startDate when given, $lte endDate when given
DateMatches(q, d) ==
  /\ q.startDate.k = "date" => d.date >= q.startDate.v
  /\ q.endDate.k = "date" => d.date <= q.endDate.v

\* the documents the filter selects
Matching(coll, q) == {d \in coll : StatusMatches(q, d) /\ DateMatches(q, d)}

RECURSIVE SortedByDateAsc(_)
\* mutant: .sort({ date: 1 }), oldest first
SortedByDateAsc(S) ==
  IF S = {} THEN {<<>>}
  ELSE UNION { {<<d>> \o s : s \in SortedByDateAsc(S \ {d})} :
               d \in {x \in S : \A y \in S : x.date <= y.date} }

RECURSIVE SortedByDateDesc(_)
\* .sort({ date: -1 }): every order of the documents by descending date;
\* the order among equal dates is the database's choice
SortedByDateDesc(S) ==
  IF S = {} THEN {<<>>}
  ELSE UNION { {<<d>> \o s : s \in SortedByDateDesc(S \ {d})} :
               d \in {x \in S : \A y \in S : x.date >= y.date} }

\* const skip = (page - 1) * limit
SkipOf(q) == (PageOf(q) - 1) * LimitOf(q)

\* .skip(skip) with a negative skip is rejected by the database; together
\* with the cast of the filter this decides whether the find runs
QueryRuns(q) == FilterCasts(q) /\ SkipOf(q) >= 0

\* .limit(n): 0 is no limit, and a negative n limits to -n documents
LimitApplied(limit, n) ==
  IF limit = 0 THEN n ELSE IF limit < 0 THEN -limit ELSE limit

\* .skip(skip).limit(limit) of a sorted sequence
PageSlice(s, skip, limit) ==
  LET upto == skip + LimitApplied(limit, Len(s))
  IN SubSeq(s, skip + 1, IF upto <= Len(s) THEN upto ELSE Len(s))

\* mutant: Math.floor instead of Math.ceil
PagesFloor(total, limit) == total \div limit

\* Math.ceil(total / limit) as JSON: total / 0 is Infinity or NaN, which
\* JSON.stringify writes as null
Pages(total, limit) ==
  IF limit > 0 THEN (total + limit - 1) \div limit
  ELSE IF limit < 0 THEN -(total \div (-limit))
  ELSE Null

\* Transaction.find(filter).sort().skip().limit() resolved; countDocuments starts
ListFind(q, sorted) ==
  /\ resp = NoResp
  /\ listing.pc = 0
  /\ QueryRuns(q)
  /\ sorted \in SortedByDateDesc(Matching(store, q))
  /\ listing' = [pc |-> 1, q |-> q,
                 transactions |-> PageSlice(sorted, SkipOf(q), LimitOf(q)),
                 seen |-> store]
  /\ UNCHANGED <<store, saving, timers, resolving, errlog, nextOid, now, stats, resp>>

\* Transaction.countDocuments(filter) resolved: the response is sent.  The
\* ghost field records the collection as find saw it.
ListCount ==
  /\ resp = NoResp
  /\ listing.pc = 1
  /\ LET total == Cardinality(Matching(store, listing.q)) IN
       resp' = [op |-> "list", code |-> 200, q |-> listing.q,
                body |-> [transactions |-> listing.transactions,
                          pagination |-> [total |-> total,
                                          page  |-> PageOf(listing.q),
                                          limit |-> LimitOf(listing.q),
                                          pages |-> Pages(total, LimitOf(listing.q))]],
                seen |-> listing.seen]
  /\ listing' = [pc |-> 0]
  /\ UNCHANGED <<store, saving, timers, resolving, errlog, nextOid, now, stats>>

\* the catch block of the listing: the database rejected the find (the filter
\* did not cast, or the skip is negative).  The ghost field q records the query.
ListRejected(q) ==
  /\ resp = NoResp
  /\ listing.pc = 0
  /\ ~QueryRuns(q)
  /\ resp' = [op |-> "list", code |-> 500, body |-> [message |-> "Server error"], q |-> q]
  /\ UNCHANGED <<store, saving, timers, resolving, errlog, nextOid, now, stats, listing>>

\* the catch block of the listing: a query failed in the database
ListError ==
  /\ resp = NoResp
  /\ listing.pc = 1
  /\ resp' = Reply("list", 500, [message |-> "Server error"])
  /\ listing' = [pc |-> 0]
  /\ UNCHANGED <<store, saving, timers, resolving, errlog, nextOid, now, stats>>

-----------------------------------------------------------------------------
(* GET /api/stats *)

\* mutant: countDocuments() called without its status filter
CountByStatusUnfiltered(coll, st) == Cardinality(coll)

\* Transaction.countDocuments({ status })
CountByStatus(coll, st) == Cardinality({d \in coll : d.status = st})

RECURSIVE SumAmount(_)
\* $group: { total: { $sum: '$amount' } }
SumAmount(S) ==
  IF S = {} THEN 0
  ELSE LET d == CHOOSE x \in S : TRUE IN d.amount + SumAmount(S \ {d})

\* mutant: the $match stage written with status pending
TotalPendingAmount(coll) == SumAmount({d \in coll : d.status = "pending"})

\* totalAmount.length > 0 ? totalAmount[0].total : 0, over $match status success
TotalSuccessAmount(coll) == SumAmount({d \in coll : d.status = "success"})

\* $dateToString %Y-%m-%d: the calendar day of a date, as a day number
DayOf(t) == t \div DAY

\* lastWeek.setDate(lastWeek.getDate() - 7)
LastWeek(t) == t - WEEK_DAYS * DAY

RECURSIVE SortAsc(_)
\* $sort: { _id: 1 } of a set of day numbers
SortAsc(S) ==
  IF S = {} THEN <<>>
  ELSE LET m == CHOOSE x \in S : \A y \in S : x <= y IN <<m>> \o SortAsc(S \ {m})

\* mutant: the pipeline without its $match stage
DailyUnmatched(coll, t) ==
  LET days == SortAsc({DayOf(d.date) : d \in coll})
  IN [i \in 1..Len(days) |->
        LET ofDay == {d \in coll : DayOf(d.date) = days[i]}
        IN [_id |-> days[i], count |-> Cardinality(ofDay), amount |-> SumAmount(ofDay)]]

\* the $match / $group / $sort pipeline of dailyTransactions
DailyTransactions(coll, t) ==
  LET recent == {d \in coll : d.date >= LastWeek(t)}
      days == SortAsc({DayOf(d.date) : d \in recent})
  IN [i \in 1..Len(days) |->
        LET ofDay == {d \in recent : DayOf(d.date) = days[i]}
        IN [_id |-> days[i], count |-> Cardinality(ofDay), amount |-> SumAmount(ofDay)]]

\* the number of writes the collection has taken: one per inserted document
\* and one per document moved out of pending
Writes(coll) == Cardinality(coll) + Cardinality({d \in coll : d.status # "pending"})

\* countDocuments() resolved.  The ghost fields writes / quiet record whether the
\* collection took a write between the four counts.
StatsCountAll ==
  /\ resp = NoResp
  /\ stats.pc = 0
  /\ stats' = [pc |-> 1, totalTransactions |-> Cardinality(store),
               writes |-> Writes(store), quiet |-> TRUE]
  /\ UNCHANGED <<store, saving, timers, resolving, errlog, nextOid, now, listing, resp>>

\* countDocuments({ status: 'success' }) resolved
StatsCountSuccess ==
  /\ resp = NoResp
  /\ stats.pc = 1
  /\ stats' = [pc |-> 2, totalTransactions |-> stats.totalTransactions,
               successfulTransactions |-> CountByStatus(store, "success"),
               writes |-> stats.writes, quiet |-> stats.quiet /\ Writes(store) = stats.writes]
  /\ UNCHANGED <<store, saving, timers, resolving, errlog, nextOid, now, listing, resp>>

\* countDocuments({ status: 'pending' }) resolved
StatsCountPending ==
  /\ resp = NoResp
  /\ stats.pc = 2
  /\ stats' = [pc |-> 3, totalTransactions |-> stats.totalTransactions,
               successfulTransactions |-> stats.successfulTransactions,
               pendingTransactions |-> CountByStatus(store, "pending"),
               writes |-> stats.writes, quiet |-> stats.quiet /\ Writes(store) = stats.writes]
  /\ UNCHANGED <<store, saving, timers, resolving, errlog, nextOid, now, listing, resp>>

\* countDocuments({ status: 'failed' }) resolved
StatsCountFailed ==
  /\ resp = NoResp
  /\ stats.pc = 3
  /\ stats' = [pc |-> 4, totalTransactions |-> stats.totalTransactions,
               successfulTransactions |-> stats.successfulTransactions,
               pendingTransactions |-> stats.pendingTransactions,
               failedTransactions |-> CountByStatus(store, "failed"),
               writes |-> stats.writes, quiet |-> stats.quiet /\ Writes(store) = stats.writes]
  /\ UNCHANGED <<store, saving, timers, resolving, errlog, nextOid, now, listing, resp>>

\* the totalAmount aggregate resolved; lastWeek is computed for the next one.
\* The ghost field still records whether the collection took a write since
\* the first query, and at the instant lastWeek was computed from.
StatsTotalAmount ==
  /\ resp = NoResp
  /\ stats.pc = 4
  /\ stats' = [pc |-> 5, totalTransactions |-> stats.totalTransactions,
               successfulTransactions |-> stats.successfulTransactions,
               pendingTransactions |-> stats.pendingTransactions,
               failedTransactions |-> stats.failedTransactions,
               totalAmount |-> TotalSuccessAmount(store),
               lastWeek |-> LastWeek(now),
               at |-> now,
               writes |-> stats.writes, quiet |-> stats.quiet,
               still |-> stats.quiet /\ Writes(store) = stats.writes]
  /\ UNCHANGED <<store, saving, timers, resolving, errlog, nextOid, now, listing, resp>>

\* the dailyTransactions aggregate resolved: the response is sent
StatsDaily ==
  /\ resp = NoResp
  /\ stats.pc = 5
  /\ resp' = [op |-> "stats", code |-> 200,
              body |-> [totalTransactions |-> stats.totalTransactions,
                        successfulTransactions |-> stats.successfulTransactions,
                        pendingTransactions |-> stats.pendingTransactions,
                        failedTransactions |-> stats.failedTransactions,
                        totalAmount |-> stats.totalAmount,
                        dailyTransactions |->
                          DailyTransactions(store, stats.lastWeek + WEEK_DAYS * DAY)],
              quiet |-> stats.quiet,
              still |-> stats.still /\ Writes(store) = stats.writes,
              at |-> stats.at]
  /\ stats' = [pc |-> 0]
  /\ UNCHANGED <<store, saving, timers, resolving, errlog, nextOid, now, listing>>

\* the catch block of the statistics: a query failed in the database
StatsError ==
  /\ resp = NoResp
  /\ stats.pc > 0
  /\ resp' = Reply("stats", 500, [message |-> "Server error"])
  /\ stats' = [pc |-> 0]
  /\ UNCHANGED <<store, saving, timers, resolving, errlog, nextOid, now, listing>>

-----------------------------------------------------------------------------
(* Specifications *)

Create ==
  \/ \E body \in Bodies : CreateReject(body)
  \/ \E body \in Bodies, rnd \in RandBytes : CreateBegin(body, rnd)
  \/ \E doc \in saving : SaveOk(doc)
  \/ \E doc \in saving : SaveRejected(doc)

Fire == \E tenths \in RandomTenths, utrTenths \in UtrTenths : TimerFire(tenths, utrTenths)

Resolve == \E u \in resolving : ResolveOk(u)

Read == \E id \in KnownIds : Get(id)

List ==
  \/ \E q \in Queries : \E sorted \in SortedByDateDesc(Matching(store, q)) : ListFind(q, sorted)
  \/ ListCount
  \/ \E q \in Queries : ListRejected(q)

\* the listing called with a page or a limit that is not positive
ListDegenerate ==
  \/ \E q \in DegenerateQueries :
       \E sorted \in SortedByDateDesc(Matching(store, q)) : ListFind(q, sorted)
  \/ \E q \in DegenerateQueries : ListRejected(q)

Summary ==
  \/ StatsCountAll
  \/ StatsCountSuccess
  \/ StatsCountPending
  \/ StatsCountFailed
  \/ StatsTotalAmount
  \/ StatsDaily

Faults ==
  \/ \E doc \in saving : SaveError(doc)
  \/ \E u \in resolving : ResolveError(u)

Lifecycle == Create \/ Fire \/ Resolve \/ Tick \/ Sent

\* the lifecycle with persistence failures and reads by id
Next == Lifecycle \/ Faults \/ Read \/ (\E id \in KnownIds : GetError(id))

Spec == Init /\ [][Next]_vars

\* The event loop runs every due timer and every completed database call, and
\* the clock advances, however many requests arrive: strong fairness, because
\* a response on its way out momentarily disables the other steps.
Scheduling ==
  /\ SF_vars(Tick)
  /\ SF_vars(Fire)
  /\ WF_vars(Sent)

\* the lifecycle without persistence failures, fairly scheduled
SpecLive == Init /\ [][Lifecycle]_vars /\ Scheduling /\ SF_vars(Resolve)

\* an update in flight completes, one way or the other
ResolveDone == \E u \in resolving : ResolveOk(u) \/ ResolveError(u)

\* the lifecycle with persistence failures, fairly scheduled
SpecFaulty == Init /\ [][Next]_vars /\ Scheduling /\ SF_vars(ResolveDone)

\* the lifecycle with the statistics call
NextStats == Lifecycle \/ Summary \/ StatsError

SpecStats == Init /\ [][NextStats]_vars

\* the lifecycle with the listing call
NextList == Lifecycle \/ List \/ ListError

SpecList == Init /\ [][NextList]_vars

\* the listing call on a server that holds transactions of earlier days
SpecPaging == InitSeeded /\ [][NextList]_vars

\* the statistics call on a server that holds transactions of earlier days
SpecDaily == InitSeeded /\ [][NextStats]_vars

\* the lifecycle with the listing called with degenerate pagination
NextDegenerate == Lifecycle \/ ListDegenerate \/ ListCount \/ ListError

SpecDegenerate == Init /\ [][NextDegenerate]_vars

-----------------------------------------------------------------------------
(* Properties *)

Terminal(d) == d.status \in {"success", "failed"}

\* C1: once a transaction's status is success or failed, no step changes it:
\* every document that is terminal before a step is in the collection after
\* it with the same status.
C1_StatusIsTerminal ==
  [][\A d \in store : Terminal(d) =>
        \E e \in store' : e._id = d._id /\ e.status = d.status]_vars

\* C1 witness: a Get returns a terminal record while the other transaction's
\* update is still in flight
C1_Witness ==
  /\ resp.op = "get" /\ resp.code = 200
  /\ Terminal(resp.body)
  /\ resolving # {}

\* C2: every stored transaction has a utrId if and only if its status is
\* success.
C2_UtrIffSuccess ==
  \A d \in store : (d.utrId # Null) <=> (d.status = "success")

\* C2 witness: a successful and a failed transaction are both stored
C2_Witness ==
  /\ \E d \in store : d.status = "success" /\ d.utrId # Null
  /\ \E d \in store : d.status = "failed"

BadAmount(a) == a.k = "undef" \/ (a.k = "num" /\ a.v <= 0)

\* C4: every response to a Create whose amount is missing or not strictly
\* positive is a 400 sent by a step that leaves the collection, the saves in
\* flight, the timers and the updates in flight unchanged; no document with
\* such an amount is ever being saved or stored.
C4_InvalidAmountRejected ==
  [][/\ (resp'.op = "create" /\ resp' # resp /\ BadAmount(resp'.req)) =>
          /\ resp'.code = 400
          /\ UNCHANGED <<store, saving, timers, resolving, nextOid>>
     /\ \A d \in saving' : ~BadAmount(d.amount)
     /\ \A d \in store' : d.amount > 0]_vars

\* C4 witness: a 400 answers a Create with a bad amount while a transaction
\* is stored and its timer is armed
C4_Witness ==
  /\ resp.op = "create" /\ resp.code = 400 /\ BadAmount(resp.req)
  /\ store # {} /\ timers # <<>>

Settled(o) ==
  \E d \in store : /\ d._id = o
                   /\ Terminal(d)
                   /\ (d.utrId # Null) <=> (d.status = "success")

\* C5: with fair scheduling and no persistence failure, every transaction
\* that was inserted eventually has status success or failed, with a utrId
\* exactly when the status is success.
C5_EventuallyResolved ==
  \A o \in 1..MaxTxn : (\E d \in store : d._id = o) ~> Settled(o)

\* C5 witness: both transactions have been resolved
C5_Witness ==
  /\ Cardinality(store) >= 2
  /\ \A d \in store : Terminal(d)

InsertedIn(coll, id) == \E d \in coll : d.transactionId = id

\* C6: every armed timer and every update in flight is for a transactionId
\* whose document has been inserted, and a step arms a timer only for the
\* document it inserts.
C6_ResolveAfterInsert ==
  [][/\ \A i \in 1..Len(timers') : InsertedIn(store', timers'[i].transactionId)
     /\ \A u \in resolving' : InsertedIn(store', u.transactionId)
     /\ Len(timers') > Len(timers) =>
          \E d \in store' \ store :
            d.transactionId = timers'[Len(timers')].transactionId]_vars

\* C6 witness: a save has just failed (500) while the timer of the inserted
\* transaction is armed
C6_Witness ==
  /\ resp.op = "create" /\ resp.code = 500
  /\ store # {}
  /\ timers # <<>>

\* C7: a step in which a resolve update fails changes no document and no
\* timer and removes only that update from those in flight; and every inserted
\* transaction is eventually resolved or has had its own update fail.
C7_FailureIsIsolated ==
  /\ [][errlog' # errlog =>
          /\ store' = store
          /\ timers' = timers
          /\ resolving' \subseteq resolving
          /\ \A u \in resolving \ resolving' : u.transactionId \in errlog']_vars
  /\ \A o \in 1..MaxTxn :
       (\E d \in store : d._id = o) ~>
       (\E d \in store : d._id = o /\ (Terminal(d) \/ d.transactionId \in errlog))

\* C7 witness: one transaction's update failed and another transaction was
\* resolved
C7_Witness ==
  /\ \E d \in store : d.transactionId \in errlog /\ d.status = "pending"
  /\ \E d \in store : d.transactionId \notin errlog /\ Terminal(d)

StatsOk == resp.op = "stats" /\ resp.code = 200

CountsAddUp ==
  resp.body.totalTransactions =
    resp.body.successfulTransactions + resp.body.pendingTransactions
      + resp.body.failedTransactions

\* C8 as claimed: every Summary response has totalTransactions equal to the
\* sum of the three status counts, whatever interleaves with its queries.
C8_Original == StatsOk => CountsAddUp

\* C8 amended: the equality holds for every Summary response whose four count
\* queries saw the same collection.
C8_CountsAddUpWhenQuiet == (StatsOk /\ resp.quiet) => CountsAddUp

\* C8 witness: a Summary over an unchanged collection that holds transactions
\* of two statuses
C8_Witness ==
  /\ StatsOk /\ resp.quiet
  /\ resp.body.successfulTransactions >= 1
  /\ resp.body.totalTransactions > resp.body.successfulTransactions

ListOk == resp.op = "list" /\ resp.code = 200

\* the documents of coll that satisfy the status and date constraints of q
Selected(coll, q) ==
  {d \in coll :
     /\ q.status \in {"pending", "success", "failed"} => d.status = q.status
     /\ q.startDate.k = "date" => q.startDate.v <= d.date
     /\ q.endDate.k = "date" => d.date <= q.endDate.v}

\* p is the ceiling of total / limit
IsCeil(p, total, limit) == p * limit >= total /\ (p - 1) * limit < total

PaginationOk ==
  LET pg == resp.body.pagination IN
  /\ pg.total = Cardinality(Selected(store, resp.q))
  /\ IsCeil(pg.pages, pg.total, pg.limit)

EmptyBeyondRange ==
  LET pg == resp.body.pagination IN
  pg.page > pg.pages => resp.body.transactions = <<>>

\* C9 as claimed: every List response has total equal to the number of
\* matching records and pages = ceil(total / limit), and an empty record list
\* when page is greater than pages.
C9_Original == ListOk => (PaginationOk /\ EmptyBeyondRange)

\* C9 amended: total and pages are as claimed in every List response; the
\* record list is empty when page is greater than pages provided the
\* collection did not change between the find and the count of the call.
C9_PaginationWhenQuiet ==
  ListOk => /\ PaginationOk
            /\ resp.seen = store => EmptyBeyondRange

\* C9 witness: a page beyond the range of a non-empty matching set comes back
\* empty
C9_Witness ==
  /\ ListOk /\ resp.seen = store
  /\ resp.body.pagination.total >= 1
  /\ resp.body.pagination.page > resp.body.pagination.pages
  /\ resp.body.transactions = <<>>

Min(a, b) == IF a <= b THEN a ELSE b
Max(a, b) == IF a >= b THEN a ELSE b

\* C10: every returned record satisfies the status constraint (when status is
\* given and not "all") and the date constraints, and the page is cut from
\* all the records find saw that satisfy them: with status absent or "all",
\* records of every status are counted in.
C10_ListRespectsFilter ==
  ListOk =>
    LET q == resp.q
        rows == resp.body.transactions
        pg == resp.body.pagination
        sel == Selected(resp.seen, q)
    IN /\ \A i \in 1..Len(rows) : rows[i] \in sel
       /\ Len(rows) = Min(pg.limit, Max(0, Cardinality(sel) - (pg.page - 1) * pg.limit))

\* C10 witness: a listing by status leaves a stored record of another status
\* out, and returns one that matches
C10_Witness ==
  /\ ListOk
  /\ resp.q.status = "success"
  /\ Len(resp.body.transactions) >= 1
  /\ \E d \in resp.seen : d.status # "success"

-----------------------------------------------------------------------------
(* Degenerate pagination *)

\* the response's query has a page or a limit that is zero or negative
Degenerate(q) ==
  \/ q.page.k = "num" /\ q.page.v <= 0
  \/ q.limit.k = "num" /\ q.limit.v <= 0

\* a non-positive page read as 1, a non-positive limit as the default limit
PageAsDocumented(q) == IF PageOf(q) <= 0 THEN 1 ELSE PageOf(q)
LimitAsDocumented(q) == IF LimitOf(q) <= 0 THEN DEFAULT_LIMIT ELSE LimitOf(q)

\* C11 as claimed: every List response to a query with a non-positive page or
\* a non-positive limit is a normal response (200) whose page is 1 where the
\* given page is not positive, whose limit is the default limit where the
\* given limit is not positive, and whose record list has the length these
\* two values give.
C11_Original ==
  (resp.op = "list" /\ "q" \in DOMAIN resp /\ Degenerate(resp.q)) =>
    /\ resp.code = 200
    /\ resp.body.pagination.page = PageAsDocumented(resp.q)
    /\ resp.body.pagination.limit = LimitAsDocumented(resp.q)
    /\ Len(resp.body.transactions) =
         Min(LimitAsDocumented(resp.q),
             Max(0, Cardinality(Selected(resp.seen, resp.q))
                      - (PageAsDocumented(resp.q) - 1) * LimitAsDocumented(resp.q)))

-----------------------------------------------------------------------------
(* Ranking of a page *)

\* the records of a sequence
Range(rows) == {rows[i] : i \in 1..Len(rows)}

\* C12: for a positive page p and limit l, the returned records are distinct
\* matching records in newest-first order of date, as many as the matching
\* set has from rank (p-1)*l+1 to p*l, and the matching records left out
\* split into (p-1)*l records (or all, if fewer) that are at least as new as
\* every returned one and the rest that are at most as new.
C12_PageIsRankedSlice ==
  (ListOk /\ resp.body.pagination.page > 0 /\ resp.body.pagination.limit > 0) =>
    LET rows == resp.body.transactions
        sel == Selected(resp.seen, resp.q)
        skip == (resp.body.pagination.page - 1) * resp.body.pagination.limit
        rest == sel \ Range(rows)
    IN /\ Range(rows) \subseteq sel
       /\ \A i, j \in 1..Len(rows) :
            i < j => (rows[i] # rows[j] /\ rows[i].date >= rows[j].date)
       /\ Len(rows) = Min(resp.body.pagination.limit, Max(0, Cardinality(sel) - skip))
       /\ \E before \in SUBSET rest :
            /\ Cardinality(before) = Min(skip, Cardinality(sel))
            /\ \A b \in before : \A r \in Range(rows) : b.date >= r.date
            /\ \A a \in rest \ before :
                 /\ \A r \in Range(rows) : a.date <= r.date
                 /\ \A b \in before : b.date >= a.date

\* C12 witness: page 2 with limit 1 returns one record while a strictly newer
\* matching record (rank 1) and records of two statuses are stored
C12_Witness ==
  /\ ListOk
  /\ resp.body.pagination.page = 2 /\ resp.body.pagination.limit = 1
  /\ Len(resp.body.transactions) = 1
  /\ \E d \in Selected(resp.seen, resp.q) : d.date > resp.body.transactions[1].date
  /\ \E d \in resp.seen : d.status = "pending"

-----------------------------------------------------------------------------
(* One Resolve per transaction *)

Ids(coll) == {d.transactionId : d \in coll}

\* the Resolves of id that are scheduled and have not fired
Armed(tm, id) == Cardinality({i \in 1..Len(tm) : tm[i].transactionId = id})

\* the Resolves of id that have fired and whose update has not completed
InFlight(rs, id) == Cardinality({u \in rs : u.transactionId = id})

\* 1 if a Resolve of id has completed (the record is terminal, or the update
\* failed), else 0
Completed(coll, log, id) ==
  IF id \in log \/ (\E d \in coll : d.transactionId = id /\ Terminal(d)) THEN 1 ELSE 0

\* C13: no step removes a stored record or changes its _id or transactionId;
\* a step changes a stored record only by completing the update of a Resolve
\* of its id, from pending to a terminal status; and for every stored id the
\* Resolves armed, in flight and completed number at most one in total.
C13_ResolvedOnceNeverDeleted ==
  [][/\ \A d \in store :
          \E e \in store' :
            /\ e._id = d._id /\ e.transactionId = d.transactionId
            /\ e # d => /\ d.status = "pending" /\ Terminal(e)
                        /\ \E u \in resolving \ resolving' :
                             u.transactionId = d.transactionId
     /\ \A id \in Ids(store') :
          Armed(timers', id) + InFlight(resolving', id)
            + Completed(store', errlog', id) <= 1]_vars

\* C13 witness: one transaction's Resolve has completed its update while
\* another's is still armed
C13_Witness ==
  /\ \E d \in store : /\ Terminal(d)
                       /\ Armed(timers, d.transactionId) = 0
                       /\ InFlight(resolving, d.transactionId) = 0
  /\ \E d \in store : d.status = "pending" /\ Armed(timers, d.transactionId) = 1

-----------------------------------------------------------------------------
(* Uniqueness of transactionId *)

\* C14: after every step no two stored records share a transactionId; and a
\* step that completes the save of a document whose transactionId is already
\* stored answers 500, leaves the collection unchanged and arms no timer.
C14_TransactionIdUnique ==
  [][/\ \A d, e \in store' : d.transactionId = e.transactionId => d = e
     /\ \A doc \in saving \ saving' :
          InsertedIn(store, doc.transactionId) =>
            /\ resp'.op = "create" /\ resp'.code = 500
            /\ store' = store
            /\ timers' = timers]_vars

\* C14 witness: a Create with a valid amount has just been answered 500 while
\* the transactionId it minted is stored, with its one timer armed
C14_Witness ==
  /\ resp.op = "create" /\ resp.code = 500
  /\ resp.req.k = "num"
  /\ InsertedIn(store, resp.minted)
  /\ Cardinality(store) = 1
  /\ Armed(timers, resp.minted) = 1

-----------------------------------------------------------------------------
(* A failed status update *)

\* C15: the step in which a Resolve's update fails sends no response and
\* leaves the collection unchanged; and after every step, each record whose
\* update has failed is pending with no utrId and no paymentDate, and no
\* Resolve of its id is armed or in flight.
C15_FailedUpdateStaysPending ==
  [][/\ errlog' # errlog => (resp' = NoResp /\ store' = store)
     /\ \A d \in store' :
          d.transactionId \in errlog' =>
            /\ d.status = "pending"
            /\ d.utrId = Null
            /\ d.paymentDate = NullDate
            /\ Armed(timers', d.transactionId) = 0
            /\ InFlight(resolving', d.transactionId) = 0]_vars

\* C15 witness: the updates of both transactions have failed, nothing is
\* armed or in flight, and the clock has run out
C15_Witness ==
  /\ Cardinality(store) = 2
  /\ \A d \in store : d.transactionId \in errlog /\ d.status = "pending"
  /\ timers = <<>> /\ resolving = {}
  /\ now = MaxTime

-----------------------------------------------------------------------------
(* Before the Resolve fires *)

\* C16: every 201 of a Create says status pending and is sent while the
\* Resolve of its transactionId is armed for DELAY seconds later; and every
\* Get that finds a record whose Resolve is still armed returns it with
\* status pending, no utrId and no paymentDate.
C16_PendingUntilResolve ==
  /\ (resp.op = "create" /\ resp.code = 201) =>
       /\ resp.body.status = "pending"
       /\ \E i \in 1..Len(timers) :
            /\ timers[i].transactionId = resp.body.transactionId
            /\ timers[i].fireAt = now + DELAY
       /\ \E d \in store :
            d.transactionId = resp.body.transactionId /\ d.status = "pending"
  /\ (resp.op = "get" /\ resp.code = 200
         /\ Armed(timers, resp.body.transactionId) >= 1) =>
       /\ resp.body.status = "pending"
       /\ resp.body.utrId = Null
       /\ resp.body.paymentDate = NullDate

\* C16 witness: at the end of the delay a Get returns a record whose Resolve
\* is still armed, while the other transaction has been resolved
C16_Witness ==
  /\ resp.op = "get" /\ resp.code = 200
  /\ Armed(timers, resp.body.transactionId) = 1
  /\ now = MaxTime
  /\ \E d \in store : Terminal(d)

-----------------------------------------------------------------------------
(* What a Resolve leaves alone *)

\* C17: every step keeps, for every stored record, its _id, transactionId,
\* amount, description, upiId and date; and a step that changes stored records
\* changes exactly one, the record with the transactionId of the update that
\* the step completes.
C17_ResolveFrame ==
  [][/\ \A d \in store :
          \E e \in store' :
            /\ e._id = d._id
            /\ e.transactionId = d.transactionId
            /\ e.amount = d.amount
            /\ e.description = d.description
            /\ e.upiId = d.upiId
            /\ e.date = d.date
     /\ LET changed == {d \in store : d \notin store'}
        IN changed # {} =>
             /\ Cardinality(changed) = 1
             /\ \E u \in resolving \ resolving' :
                  \A d \in changed : d.transactionId = u.transactionId]_vars

\* C17 witness: a record has been moved to success while the update of a
\* record with another transactionId is in flight
C17_Witness ==
  \E d, e \in store :
    /\ d.transactionId # e.transactionId
    /\ d.status = "success" /\ d.utrId # Null
    /\ e.status = "pending"
    /\ InFlight(resolving, e.transactionId) = 1

-----------------------------------------------------------------------------
(* The amount total and the daily series *)

RECURSIVE AmountTotal(_, _)
\* the sum of amount over the records of S, taken amount by amount over the
\* set A of amounts
AmountTotal(A, S) ==
  IF A = {} THEN 0
  ELSE LET a == CHOOSE x \in A : TRUE
       IN a * Cardinality({d \in S : d.amount = a}) + AmountTotal(A \ {a}, S)

AmountOf(S) == AmountTotal({d.amount : d \in S}, S)

\* the records created on calendar day k
OnDay(S, k) == {d \in S : k * 86400 <= d.date /\ d.date < (k + 1) * 86400}

\* C18: in every Summary response whose queries all saw the same collection,
\* totalAmount is the sum of amount over the records with status success (0
\* when there are none), and dailyTransactions lists in strictly ascending
\* day order exactly the calendar days that have a record created no earlier
\* than seven days before the call's clock reading, each with the count and
\* the amount sum of such records of that day.
C18_AmountAndDailySeries ==
  (StatsOk /\ resp.still) =>
    LET rows == resp.body.dailyTransactions
        recent == {d \in store : d.date >= resp.at - 7 * 86400}
    IN /\ resp.body.totalAmount = AmountOf({d \in store : d.status = "success"})
       /\ \A i, j \in 1..Len(rows) : i < j => rows[i]._id < rows[j]._id
       /\ \A d \in recent : \E i \in 1..Len(rows) : OnDay({d}, rows[i]._id) = {d}
       /\ \A i \in 1..Len(rows) :
            /\ OnDay(recent, rows[i]._id) # {}
            /\ rows[i].count = Cardinality(OnDay(recent, rows[i]._id))
            /\ rows[i].amount = AmountOf(OnDay(recent, rows[i]._id))

\* C18 witness: a Summary over an unchanged collection that holds a
\* successful record older than seven days and a failed one, and whose series
\* has two days
C18_Witness ==
  /\ StatsOk /\ resp.still
  /\ \E d \in store : d.date < resp.at - 7 * 86400 /\ d.status = "success"
  /\ \E d \in store : d.status = "failed"
  /\ Len(resp.body.dailyTransactions) = 2
  /\ resp.body.totalAmount > 0

-----------------------------------------------------------------------------
(* Every pending record has its Resolve *)

\* 1 if the update of id's Resolve has failed, else 0
Failed(log, id) == IF id \in log THEN 1 ELSE 0

-----------------------------------------------------------------------------
(* Successive summaries *)

\* C20: every Summary response whose queries all saw the same collection
\* reports as totalTransactions the number of stored records and as
\* totalAmount the amount sum of the successful ones, and no step decreases
\* either quantity of the collection; so of two such responses the later
\* reports values at least as large as the earlier.
C20_SummaryNeverDecreases ==
  [][/\ Cardinality(store') >= Cardinality(store)
     /\ AmountOf({d \in store' : d.status = "success"})
          >= AmountOf({d \in store : d.status = "success"})
     /\ (resp' # resp /\ resp'.op = "stats" /\ resp'.code = 200 /\ resp'.still) =>
          /\ resp'.body.totalTransactions = Cardinality(store')
          /\ resp'.body.totalAmount =
               AmountOf({d \in store' : d.status = "success"})]_vars

\* C20 witness: a Summary over an unchanged collection at the end of the
\* clock, after both transactions were created and resolved to success
C20_Witness ==
  /\ StatsOk /\ resp.still
  /\ resp.body.totalTransactions = 2
  /\ resp.body.totalAmount = 200
  /\ now = MaxTime

====
